---- MODULE Spec2Model ----
(***************************************************************************)
(* Model of the peer-membership controller (notif.go) and of the DHT       *)
(* configuration builder (dht_options.go) of go-libp2p-kad-dht (BDWare).   *)
(*                                                                         *)
(* notif.go: every connection-lifecycle notification runs as its own task. *)
(* A task is a record [kind, p, pc, todo, held]:                           *)
(*   kind   the function the task runs (Connected, testConnection,         *)
(*          Disconnected, or the invalidation goroutine of Disconnected),  *)
(*   p      the remote peer of the connection v,                           *)
(*   pc     the statement the task is about to execute,                    *)
(*   todo   the part of the Network().Peers() slice not yet visited,       *)
(*   held   whether ms.lk of the removed stream is held by a sender.       *)
(* The tasks in flight form a bag.  Shared state is read and written at    *)
(* the granularity of the statements of the source.                        *)
(***************************************************************************)
EXTENDS Integers, FiniteSets, Sequences, Bags, TLC

\* ------------------------------------------------------------------ bounds
\* the remote peers
Peers == {1, 2}
\* the tasks in flight when a connection event is accepted
MaxTasks == 2
\* the options passed to the constructor, after defaults
MaxOpts == 3

\* ------------------------------------------------ constants of the program
\* minRTRefreshThreshold is declared outside notif.go; the model uses a
\* small value so that sizes below, at and above it occur with few peers.
minRTRefreshThreshold == 1
\* capacity of the triggerRtRefresh channel
triggerRtRefreshCap == 1
\* o.protectedBuckets = defaultProtectedBuckets ("Defaults to 1")
defaultProtectedBuckets == 1

VARIABLES
    closing,     \* dht.Process().Closing() is closed
    connected,   \* host.Network().Connectedness(p) = Connected, per peer
    peerstore,   \* peers with a DHT protocol recorded (SupportsProtocols # {})
    routingTable,\* dht.routingTable as a set of peers
    protected,   \* peers protected in the ConnManager under "routingTable"
    strmap,      \* dht.strmap: whether the map holds a stream for the peer
    triggerRtRefresh, \* number of buffered refresh requests
    plk,         \* dht.plk is held
    smlk,        \* dht.smlk is held
    build,       \* the config under construction: [pc, c, opts, applied, err]
    tasks,       \* bag of tasks in flight
    departed,    \* history: Disconnected removed p and p has not connected since
    last         \* history: the latest step of a handler (NoStep after the environment's)

vars == <<closing, connected, peerstore, routingTable, protected, strmap,
          triggerRtRefresh, plk, smlk, build, tasks, departed, last>>

\* ----------------------------------------------------------------- helpers
Task(kind, p, pc) ==
    [kind |-> kind, p |-> p, pc |-> pc, todo |-> {}, held |-> FALSE]

Spawn(b, t) == b (+) SetToBag({t})
Retire(b, t) == b (-) SetToBag({t})
Move(b, t, u) == (b (-) SetToBag({t})) (+) SetToBag({u})
Running == BagToSet(tasks)
At(kind, pc) == {t \in Running : t.kind = kind /\ t.pc = pc}

Step(act, p, upd, sig) == [act |-> act, p |-> p, upd |-> upd, sig |-> sig]
NoStep == Step("none", 0, <<>>, "none")

\* ============================================================ dht_options.go
\* A record.Validator value: nil, some validator that is not a
\* record.NamespacedValidator ("other"), or a NamespacedValidator, a map from
\* namespace to validator kept as a set of <<namespace, validator>> pairs.
NilValidator == [kind |-> "nil", m |-> {}]
OtherValidator == [kind |-> "other", m |-> {}]
NSValidator(m) == [kind |-> "NamespacedValidator", m |-> m]
\* record.NamespacedValidator(nil): a namespaced validator whose map is nil;
\* it reads as the empty map and an assignment to one of its entries panics
NilNSValidator == [kind |-> "NamespacedValidator(nil)", m |-> {}]

\* the validators a namespace can be bound to
PublicKeyValidator == "record.PublicKeyValidator"
IpnsValidator == "ipns.Validator"
CustomValidator == "custom"

\* v.(record.NamespacedValidator) succeeds
IsNSVal(v) == v.kind \in {"NamespacedValidator", "NamespacedValidator(nil)"}
\* the map of the namespaced validator v is nil
IsNilMap(v) == v.kind = "NamespacedValidator(nil)"
\* _, found := nsval[ns]
Found(m, ns) == \E e \in m : e[1] = ns
\* nsval[ns], when found
Lookup(m, ns) == (CHOOSE e \in m : e[1] = ns)[2]
\* nsval[ns] = v
MapPut(m, ns, v) == {e \in m : e[1] # ns} \cup {<<ns, v>>}

DefaultPrefix == "/ipfs"
defaultBucketSize == 20

ModeAuto == 0
ModeClient == 1
ModeServer == 2
ModeAutoServer == 3

\* var cfg config: the zero value of the struct
ZeroConfig ==
    [ datastore |-> "nil", validator |-> NilValidator, validatorChanged |-> FALSE,
      mode |-> ModeAuto, protocolPrefix |-> "", bucketSize |-> 0, concurrency |-> 0,
      resiliency |-> 0, maxRecordAge |-> 0, enableProviders |-> FALSE,
      enableValues |-> FALSE, providersOptions |-> "nil", queryPeerFilter |-> "nil",
      protectAllBuckets |-> FALSE, protectedBuckets |-> 0,
      refreshQueryTimeout |-> 0, refreshInterval |-> 0, autoRefresh |-> FALSE,
      latencyTolerance |-> 0, peerFilter |-> "nil", considerLatency |-> FALSE,
      avgBitsImprovedPerStep |-> "0", avgRoundTripPerStep |-> "0",
      v1CompatibleMode |-> FALSE, bootstrapPeers |-> "nil" ]

\* the result of an Option: the config after it and its error ("nil" = none)
Ok(c) == [c |-> c, err |-> "nil"]
Fail(c, e) == [c |-> c, err |-> e]
\* the call does not return: the runtime panics on the assignment to an
\* entry of a nil map
PanicNilMap == "panic: assignment to entry in nil map"
Panic(c) == [c |-> c, err |-> PanicNilMap]

\* var defaults = func(o *config) error (durations in minutes)
defaults(o) ==
    Ok([o EXCEPT !.validator = NSValidator({}),
                 !.datastore = "MapDatastore",
                 !.protocolPrefix = DefaultPrefix,
                 !.enableProviders = TRUE,
                 !.enableValues = TRUE,
                 !.queryPeerFilter = "emptyQueryFilter",
                 !.latencyTolerance = 1,
                 !.refreshQueryTimeout = 1,
                 !.refreshInterval = 10,
                 !.autoRefresh = TRUE,
                 !.peerFilter = "emptyRTFilter",
                 !.maxRecordAge = 2160,
                 !.considerLatency = FALSE,
                 !.avgBitsImprovedPerStep = "1.3327+log2(20)",
                 !.avgRoundTripPerStep = "4",
                 !.bucketSize = defaultBucketSize,
                 !.concurrency = 10,
                 !.resiliency = 3,
                 !.protectAllBuckets = FALSE,
                 !.protectedBuckets = defaultProtectedBuckets,
                 !.v1CompatibleMode = TRUE])

\* An Option value: the constructor called and its arguments (s: a string,
\* k: the validator bound to a namespace, n: an int, v: a record.Validator)
Opt(name, s, k, n, v) == [name |-> name, s |-> s, k |-> k, n |-> n, v |-> v]
Opt0(name) == Opt(name, "", "", 0, NilValidator)
OptS(name, str) == Opt(name, str, "", 0, NilValidator)
OptN(name, n) == Opt(name, "", "", n, NilValidator)

Validator(c, v) == Ok([c EXCEPT !.validator = v, !.validatorChanged = TRUE])

\* a NamespacedValidator that, finding a validator that is not namespaced,
\* installs a fresh namespaced validator instead of returning the error
NamespacedValidatorFresh(c, ns, v) ==
    IF ~IsNSVal(c.validator) \/ IsNilMap(c.validator)
    THEN Ok([c EXCEPT !.validator = NSValidator({<<ns, v>>})])
    ELSE Ok([c EXCEPT !.validator = NSValidator(MapPut(c.validator.m, ns, v))])

NamespacedValidator(c, ns, v) ==
    IF ~IsNSVal(c.validator)
    THEN Fail(c, "can only add namespaced validators to a NamespacedValidator")
    ELSE IF IsNilMap(c.validator) THEN Panic(c)
    ELSE Ok([c EXCEPT !.validator = NSValidator(MapPut(c.validator.m, ns, v))])

ProtocolPrefix(c, prefix) == Ok([c EXCEPT !.protocolPrefix = prefix])
ProtocolExtension(c, ext) == Ok([c EXCEPT !.protocolPrefix = c.protocolPrefix \o ext])
BucketSize(c, bucketSize) == Ok([c EXCEPT !.bucketSize = bucketSize])
Concurrency(c, alpha) == Ok([c EXCEPT !.concurrency = alpha])
Resiliency(c, beta) == Ok([c EXCEPT !.resiliency = beta])
Mode(c, m) == Ok([c EXCEPT !.mode = m])
DisableAutoRefresh(c) == Ok([c EXCEPT !.autoRefresh = FALSE])
DisableProviders(c) == Ok([c EXCEPT !.enableProviders = FALSE])
DisableValues(c) == Ok([c EXCEPT !.enableValues = FALSE])
EnableProtectAllBuckets(c) == Ok([c EXCEPT !.protectAllBuckets = TRUE])
\* a ProtectedBuckets that stores a negative depth as 0
ProtectedBucketsUnsigned(c, maxCpl) ==
    Ok([c EXCEPT !.protectedBuckets = IF maxCpl < 0 THEN 0 ELSE maxCpl])
ProtectedBuckets(c, maxCpl) == Ok([c EXCEPT !.protectedBuckets = maxCpl])
RoutingTableLatencyTolerance(c, latency) == Ok([c EXCEPT !.latencyTolerance = latency])
RoutingTableRefreshQueryTimeout(c, timeout) == Ok([c EXCEPT !.refreshQueryTimeout = timeout])
RoutingTableRefreshPeriod(c, period) == Ok([c EXCEPT !.refreshInterval = period])
Datastore(c, ds) == Ok([c EXCEPT !.datastore = ds])
MaxRecordAge(c, maxAge) == Ok([c EXCEPT !.maxRecordAge = maxAge])
ProvidersOptions(c, opts) == Ok([c EXCEPT !.providersOptions = opts])
QueryFilter(c, filter) == Ok([c EXCEPT !.queryPeerFilter = filter])
RoutingTableFilter(c, filter) == Ok([c EXCEPT !.peerFilter = filter])
EnableConsiderLatency(c) == Ok([c EXCEPT !.considerLatency = TRUE])
AvgBitsImprovedPerStep(c, x) == Ok([c EXCEPT !.avgBitsImprovedPerStep = x])
AvgRoundTripPerStep(c, x) == Ok([c EXCEPT !.avgRoundTripPerStep = x])
V1CompatibleMode(c, enable) == Ok([c EXCEPT !.v1CompatibleMode = enable])
BootstrapPeers(c, bootstrappers) == Ok([c EXCEPT !.bootstrapPeers = bootstrappers])

\* opt(c): the call of one Option function
Call(opt, c) ==
    CASE opt.name = "defaults" -> defaults(c)
      [] opt.name = "Validator" -> Validator(c, opt.v)
      [] opt.name = "NamespacedValidator" -> NamespacedValidator(c, opt.s, opt.k)
      [] opt.name = "ProtocolPrefix" -> ProtocolPrefix(c, opt.s)
      [] opt.name = "ProtocolExtension" -> ProtocolExtension(c, opt.s)
      [] opt.name = "BucketSize" -> BucketSize(c, opt.n)
      [] opt.name = "Concurrency" -> Concurrency(c, opt.n)
      [] opt.name = "Resiliency" -> Resiliency(c, opt.n)
      [] opt.name = "Mode" -> Mode(c, opt.n)
      [] opt.name = "DisableAutoRefresh" -> DisableAutoRefresh(c)
      [] opt.name = "DisableProviders" -> DisableProviders(c)
      [] opt.name = "DisableValues" -> DisableValues(c)
      [] opt.name = "EnableProtectAllBuckets" -> EnableProtectAllBuckets(c)
      [] opt.name = "ProtectedBuckets" -> ProtectedBuckets(c, opt.n)
      [] opt.name = "RoutingTableLatencyTolerance" -> RoutingTableLatencyTolerance(c, opt.n)
      [] opt.name = "RoutingTableRefreshQueryTimeout" ->
            RoutingTableRefreshQueryTimeout(c, opt.n)
      [] opt.name = "RoutingTableRefreshPeriod" -> RoutingTableRefreshPeriod(c, opt.n)
      [] opt.name = "Datastore" -> Datastore(c, opt.s)
      [] opt.name = "MaxRecordAge" -> MaxRecordAge(c, opt.n)
      [] opt.name = "ProvidersOptions" -> ProvidersOptions(c, opt.s)
      [] opt.name = "QueryFilter" -> QueryFilter(c, opt.s)
      [] opt.name = "RoutingTableFilter" -> RoutingTableFilter(c, opt.s)
      [] opt.name = "EnableConsiderLatency" -> EnableConsiderLatency(c)
      [] opt.name = "AvgBitsImprovedPerStep" -> AvgBitsImprovedPerStep(c, opt.s)
      [] opt.name = "AvgRoundTripPerStep" -> AvgRoundTripPerStep(c, opt.s)
      [] opt.name = "V1CompatibleMode" -> V1CompatibleMode(c, opt.s = "true")
      [] opt.name = "BootstrapPeers" -> BootstrapPeers(c, opt.s)

\* fmt.Errorf("dht option %d failed: %s", i, err)
OptionError(i, err) == [msg |-> "dht option failed", index |-> i, cause |-> err]
\* apply does not return: the panic of an option unwinds through it
Panicked == [msg |-> "panic", index |-> -1, cause |-> PanicNilMap]
\* the nil error of apply
NoError == [msg |-> "nil", index |-> -1, cause |-> "nil"]

\* a loop that does not return at a failing option: it calls every option
\* and reports the failure of the last one only
RECURSIVE applyFromAll(_, _, _, _)
applyFromAll(c, opts, pos, applied) ==
    IF pos > Len(opts)
    THEN [c |-> c, err |-> NoError, applied |-> applied]
    ELSE LET r == Call(opts[pos], c)
         IN IF r.err # "nil" /\ pos = Len(opts)
            THEN [c |-> r.c, err |-> OptionError(pos - 1, r.err),
                  applied |-> Append(applied, opts[pos])]
            ELSE applyFromAll(r.c, opts, pos + 1, Append(applied, opts[pos]))

\* func (c *config) apply(opts ...Option) error.  pos is the position in opts
\* of the option the loop is at (the loop index i of the source is pos - 1);
\* applied is the sequence of options called so far.
RECURSIVE applyFrom(_, _, _, _)
applyFrom(c, opts, pos, applied) ==
    IF pos > Len(opts)
    THEN [c |-> c, err |-> NoError, applied |-> applied]
    ELSE LET r == Call(opts[pos], c)
         IN IF r.err = PanicNilMap
            THEN [c |-> r.c, err |-> Panicked,
                  applied |-> Append(applied, opts[pos])]
            ELSE IF r.err # "nil"
            THEN [c |-> r.c, err |-> OptionError(pos - 1, r.err),
                  applied |-> Append(applied, opts[pos])]
            ELSE applyFrom(r.c, opts, pos + 1, Append(applied, opts[pos]))

apply(c, opts) == applyFrom(c, opts, 1, <<>>)

\* applyFallbacks without the test of validatorChanged (line 96)
applyFallbacksUnmarked(c) ==
    IF IsNSVal(c.validator)
    THEN IF IsNilMap(c.validator) THEN Panic(c)
         ELSE
         LET m1 == IF ~Found(c.validator.m, "pk")
                   THEN MapPut(c.validator.m, "pk", PublicKeyValidator)
                   ELSE c.validator.m
             m2 == IF ~Found(m1, "ipns")
                   THEN MapPut(m1, "ipns", IpnsValidator)
                   ELSE m1
         IN Ok([c EXCEPT !.validator = NSValidator(m2)])
    ELSE Fail(c, "the default validator was changed without being marked as changed")

\* func (c *config) applyFallbacks(h host.Host) error
applyFallbacks(c) ==
    IF ~c.validatorChanged
    THEN IF IsNSVal(c.validator)
         THEN IF IsNilMap(c.validator) THEN Panic(c)
              ELSE
              LET m1 == IF ~Found(c.validator.m, "pk")
                        THEN MapPut(c.validator.m, "pk", PublicKeyValidator)
                        ELSE c.validator.m
                  m2 == IF ~Found(m1, "ipns")
                        THEN MapPut(m1, "ipns", IpnsValidator)
                        ELSE m1
              IN Ok([c EXCEPT !.validator = NSValidator(m2)])
         ELSE Fail(c, "the default validator was changed without being marked as changed")
    ELSE Ok(c)

\* validate without the check of the number of namespaces (lines 177-179)
validateNoLen(c) ==
    IF c.protocolPrefix # DefaultPrefix THEN "nil"
    ELSE IF c.bucketSize # defaultBucketSize THEN "must use bucket size"
    ELSE IF ~c.enableProviders THEN "must have providers enabled"
    ELSE IF ~c.enableValues THEN "must have values enabled"
    ELSE IF ~IsNSVal(c.validator) THEN "must use a namespaced validator"
    ELSE IF ~Found(c.validator.m, "pk") THEN "must support the /pk namespaced validator"
    ELSE IF Lookup(c.validator.m, "pk") # PublicKeyValidator
         THEN "must use the record.PublicKeyValidator for the /pk namespace"
    ELSE IF ~Found(c.validator.m, "ipns") THEN "must support the /ipns namespaced validator"
    ELSE IF Lookup(c.validator.m, "ipns") # IpnsValidator
         THEN "must use ipns.Validator for the /ipns namespace"
    ELSE "nil"

\* func (c *config) validate() error
validate(c) ==
    IF c.protocolPrefix # DefaultPrefix THEN "nil"
    ELSE IF c.bucketSize # defaultBucketSize THEN "must use bucket size"
    ELSE IF ~c.enableProviders THEN "must have providers enabled"
    ELSE IF ~c.enableValues THEN "must have values enabled"
    ELSE IF ~IsNSVal(c.validator) THEN "must use a namespaced validator"
    ELSE IF Cardinality(c.validator.m) # 2 THEN "must have exactly two namespaced validators"
    ELSE IF ~Found(c.validator.m, "pk") THEN "must support the /pk namespaced validator"
    ELSE IF Lookup(c.validator.m, "pk") # PublicKeyValidator
         THEN "must use the record.PublicKeyValidator for the /pk namespace"
    ELSE IF ~Found(c.validator.m, "ipns") THEN "must support the /ipns namespaced validator"
    ELSE IF Lookup(c.validator.m, "ipns") # IpnsValidator
         THEN "must use ipns.Validator for the /ipns namespace"
    ELSE "nil"

\* ================================================================= notif.go
\* dht.autoRefresh is cfg.routingTable.autoRefresh of the validated config
dhtAutoRefresh == build.c.autoRefresh

\* the common prefix length of peer p's identifier with the local identifier
CPL(p) == 2 * (p - 1)

\* the connection-protection policy applied by dht.Update
shouldProtect(cpl, c) ==
    c.protectAllBuckets \/ (c.protectedBuckets >= 0 /\ cpl <= c.protectedBuckets)

\* dht.Update(ctx, p): the routing table and the protected set after it
UpdateTable(rt, p) == rt \cup {p}
UpdateProtected(prot, p) == IF shouldProtect(CPL(p), build.c) THEN prot \cup {p} ELSE prot

\* a send that buffers the request whatever the channel holds
TrySendUnbounded(n) == n + 1

\* select { case dht.triggerRtRefresh <- nil: default: }
\* the number of buffered requests after the attempt
TrySend(n) == IF n < triggerRtRefreshCap THEN n + 1 ELSE n

\* the comparison of line 43 with < in place of <=
NeedsRefreshStrict(rt) == Cardinality(rt) < minRTRefreshThreshold

\* refresh := dht.routingTable.Size() <= minRTRefreshThreshold
NeedsRefresh(rt) == Cardinality(rt) <= minRTRefreshThreshold

\* dht.host.Network().Connectedness(p)
Connectedness(p) == IF connected[p] THEN "Connected" ELSE "NotConnected"

\* a handler that admits the peer without looking at its connectedness
AdmitCheckNone(p) == TRUE

\* lines 42 and 88: the peer is connected, so the handler admits it
AdmitCheck(p) == Connectedness(p) = "Connected"

\* a disconnect handler that never takes the event for stale
StaleCheckNone(p) == FALSE

\* line 114: the peer is still connected, so the disconnect is stale
StaleCheck(p) == Connectedness(p) = "Connected"

\* handlers that do not look at Process().Closing()
IsClosingNever == FALSE

\* lines 28-32 and 102-106: the select finds Process().Closing() closed
IsClosing == closing

\* a peerstore that never answers with a protocol
SupportsDHTNever(p) == FALSE

\* protos, err := SupportsProtocols(p, ...); err == nil && len(protos) != 0
SupportsDHT(p) == p \in peerstore

\* the comparison of line 121 with <= in place of <
IsSparseAtThreshold(rt) == Cardinality(rt) <= minRTRefreshThreshold

\* dht.routingTable.Size() < minRTRefreshThreshold
IsSparse(rt) == Cardinality(rt) < minRTRefreshThreshold

\* lines 42-51 and 88-97: the body of the if, run by a task that holds plk
\* and found the peer connected
AdmitPeer(t, act) ==
    LET refresh == NeedsRefresh(routingTable)
        signal == refresh /\ dhtAutoRefresh
    IN /\ routingTable' = UpdateTable(routingTable, t.p)
       /\ protected' = UpdateProtected(protected, t.p)
       /\ triggerRtRefresh' = IF signal THEN TrySend(triggerRtRefresh)
                              ELSE triggerRtRefresh
       /\ last' = Step(act, t.p, <<t.p>>,
                       IF ~signal THEN "none"
                       ELSE IF TrySend(triggerRtRefresh) # triggerRtRefresh
                            THEN "sent" ELSE "dropped")

\* ------------------------------------------------------ the environment
\* a connection to p is established: the swarm notifies Connected(n, v)
NetConnect(p) ==
    /\ ~connected[p]
    /\ BagCardinality(tasks) < MaxTasks
    /\ connected' = [connected EXCEPT ![p] = TRUE]
    /\ tasks' = Spawn(tasks, Task("Connected", p, "closing"))
    /\ departed' = [departed EXCEPT ![p] = FALSE]
    /\ last' = NoStep
    /\ UNCHANGED <<closing, peerstore, routingTable, protected, strmap,
                   triggerRtRefresh, plk, smlk, build>>

\* the connection to p is closed: the swarm notifies Disconnected(n, v)
NetDisconnect(p) ==
    /\ connected[p]
    /\ BagCardinality(tasks) < MaxTasks
    /\ connected' = [connected EXCEPT ![p] = FALSE]
    /\ tasks' = Spawn(tasks, Task("Disconnected", p, "closing"))
    /\ last' = NoStep
    /\ UNCHANGED <<closing, peerstore, routingTable, protected, strmap,
                   triggerRtRefresh, plk, smlk, build, departed>>

\* the process begins to shut down: Process().Closing() is closed
BeginClosing ==
    /\ ~closing
    /\ closing' = TRUE
    /\ last' = NoStep
    /\ UNCHANGED <<connected, peerstore, routingTable, protected, strmap,
                   triggerRtRefresh, plk, smlk, build, tasks, departed>>

\* the refresh executor receives the pending request
RefreshReceive ==
    /\ triggerRtRefresh > 0
    /\ triggerRtRefresh' = triggerRtRefresh - 1
    /\ last' = NoStep
    /\ UNCHANGED <<closing, connected, peerstore, routingTable, protected, strmap,
                   plk, smlk, build, tasks, departed>>

\* a message sender creates the stream of the connected peer p: it inserts
\* it in dht.strmap under smlk
SenderInsert(p) ==
    /\ smlk = FALSE
    /\ connected[p]
    /\ ~strmap[p]
    /\ strmap' = [strmap EXCEPT ![p] = TRUE]
    /\ last' = NoStep
    /\ UNCHANGED <<closing, connected, peerstore, routingTable, protected,
                   triggerRtRefresh, plk, smlk, build, tasks, departed>>

\* the sender that held ms.lk of a stream removed from the map ends its send
SenderUnlock(t) ==
    /\ t.kind = "invalidate" /\ t.pc = "lock" /\ t.held
    /\ tasks' = Move(tasks, t, [t EXCEPT !.held = FALSE])
    /\ last' = NoStep
    /\ UNCHANGED <<closing, connected, peerstore, routingTable, protected, strmap,
                   triggerRtRefresh, plk, smlk, build, departed>>

\* ------------------------------------------------- netNotifiee.Connected
\* lines 28-32: select on Process().Closing()
ConnectedClosing(t) ==
    /\ t.kind = "Connected" /\ t.pc = "closing"
    /\ tasks' = IF IsClosing THEN Retire(tasks, t)
                ELSE Move(tasks, t, [t EXCEPT !.pc = "peerstore"])
    /\ last' = IF IsClosing THEN Step("ConnectedClosing", t.p, <<>>, "closing") ELSE NoStep
    /\ UNCHANGED <<closing, connected, peerstore, routingTable, protected, strmap,
                   triggerRtRefresh, plk, smlk, build, departed>>

\* a Connected that starts the probe and goes on to plk and the Update all
\* the same
ConnectedPeerstoreBoth(t) ==
    /\ t.kind = "Connected" /\ t.pc = "peerstore"
    /\ tasks' = IF SupportsDHT(t.p)
                THEN Move(tasks, t, [t EXCEPT !.pc = "lock"])
                ELSE Spawn(Move(tasks, t, [t EXCEPT !.pc = "lock"]),
                           Task("testConnection", t.p, "NewStream"))
    /\ last' = NoStep
    /\ UNCHANGED <<closing, connected, peerstore, routingTable, protected, strmap,
                   triggerRtRefresh, plk, smlk, build, departed>>

\* lines 34-36 and 58: SupportsProtocols; without a cached protocol the
\* handler starts testConnection(v) as a goroutine and returns
ConnectedPeerstore(t) ==
    /\ t.kind = "Connected" /\ t.pc = "peerstore"
    /\ tasks' = IF SupportsDHT(t.p)
                THEN Move(tasks, t, [t EXCEPT !.pc = "lock"])
                ELSE Move(tasks, t, Task("testConnection", t.p, "NewStream"))
    /\ last' = NoStep
    /\ UNCHANGED <<closing, connected, peerstore, routingTable, protected, strmap,
                   triggerRtRefresh, plk, smlk, build, departed>>

\* a Connected that returns with plk locked when it finds the peer gone
ConnectedLockLeak(t) ==
    /\ t.kind = "Connected" /\ t.pc = "lock"
    /\ ~plk
    /\ plk' = TRUE
    /\ tasks' = IF AdmitCheck(t.p) THEN Move(tasks, t, [t EXCEPT !.pc = "update"])
                ELSE Retire(tasks, t)
    /\ last' = IF AdmitCheck(t.p) THEN NoStep
                ELSE Step("ConnectedLock", t.p, <<>>, "gone")
    /\ UNCHANGED <<closing, connected, peerstore, routingTable, protected, strmap,
                   triggerRtRefresh, smlk, build, departed>>

\* the connectedness check under the lock; a peer that is not connected
\* makes the handler return, which runs the deferred dht.plk.Unlock()
ConnectedLock(t) ==
    /\ t.kind = "Connected" /\ t.pc = "lock"
    /\ ~plk
    /\ plk' = AdmitCheck(t.p)
    /\ tasks' = IF AdmitCheck(t.p) THEN Move(tasks, t, [t EXCEPT !.pc = "update"])
                ELSE Retire(tasks, t)
    /\ last' = IF AdmitCheck(t.p) THEN NoStep
                ELSE Step("ConnectedLock", t.p, <<>>, "gone")
    /\ UNCHANGED <<closing, connected, peerstore, routingTable, protected, strmap,
                   triggerRtRefresh, smlk, build, departed>>

\* lines 43-52 with 41: Size, Update, the refresh request and the deferred
\* dht.plk.Unlock() at return
ConnectedUpdate(t) ==
    /\ t.kind = "Connected" /\ t.pc = "update"
    /\ AdmitPeer(t, "ConnectedUpdate")
    /\ plk' = FALSE
    /\ tasks' = Retire(tasks, t)
    /\ UNCHANGED <<closing, connected, peerstore, strmap, smlk, build, departed>>

\* -------------------------------------------- netNotifiee.testConnection
\* AddProtocols called before the error of SelectOneOf is looked at
NegotiatedEarly(ps, p, outcome) == IF outcome # "NewStream err" THEN ps \cup {p} ELSE ps

\* the peerstore after lines 75-81, given the outcome of the negotiation
Negotiated(ps, p, outcome) == IF outcome = "ok" THEN ps \cup {p} ELSE ps

\* the outcomes of the probe: v.NewStream() fails, SelectOneOf fails, or
\* both succeed
ProbeOutcomes == {"NewStream err", "SelectOneOf err", "ok"}

\* lines 68-81: v.NewStream(), mstream.SelectOneOf on the stream and, when
\* both succeed, AddProtocols; either error makes the probe return
testConnectionProbe(t, outcome) ==
    /\ t.kind = "testConnection" /\ t.pc = "NewStream"
    /\ peerstore' = Negotiated(peerstore, t.p, outcome)
    /\ tasks' = IF outcome = "ok" THEN Move(tasks, t, [t EXCEPT !.pc = "lock"])
                ELSE Retire(tasks, t)
    /\ last' = IF outcome = "ok" THEN NoStep
                ELSE Step("testConnectionProbe", t.p, <<>>, outcome)
    /\ UNCHANGED <<closing, connected, routingTable, protected, strmap,
                   triggerRtRefresh, plk, smlk, build, departed>>

\* a probe that goes on to its connectedness check without taking plk
testConnectionLockFree(t) ==
    /\ t.kind = "testConnection" /\ t.pc = "lock"
    /\ plk' = plk
    /\ tasks' = IF AdmitCheck(t.p) THEN Move(tasks, t, [t EXCEPT !.pc = "update"])
                ELSE Retire(tasks, t)
    /\ last' = IF AdmitCheck(t.p) THEN NoStep
                ELSE Step("testConnectionLock", t.p, <<>>, "gone")
    /\ UNCHANGED <<closing, connected, peerstore, routingTable, protected, strmap,
                   triggerRtRefresh, smlk, build, departed>>

\* lines 86-88 (and 98 with 87 when the peer is gone): dht.plk.Lock() and
\* the connectedness check under the lock
testConnectionLock(t) ==
    /\ t.kind = "testConnection" /\ t.pc = "lock"
    /\ ~plk
    /\ plk' = AdmitCheck(t.p)
    /\ tasks' = IF AdmitCheck(t.p) THEN Move(tasks, t, [t EXCEPT !.pc = "update"])
                ELSE Retire(tasks, t)
    /\ last' = IF AdmitCheck(t.p) THEN NoStep
                ELSE Step("testConnectionLock", t.p, <<>>, "gone")
    /\ UNCHANGED <<closing, connected, peerstore, routingTable, protected, strmap,
                   triggerRtRefresh, smlk, build, departed>>

\* lines 89-98 with 87: Size, Update, the refresh request and the deferred
\* dht.plk.Unlock() at return
testConnectionUpdate(t) ==
    /\ t.kind = "testConnection" /\ t.pc = "update"
    /\ AdmitPeer(t, "testConnectionUpdate")
    /\ plk' = FALSE
    /\ tasks' = Retire(tasks, t)
    /\ UNCHANGED <<closing, connected, peerstore, strmap, smlk, build, departed>>

\* ---------------------------------------------- netNotifiee.Disconnected
\* lines 102-106: select on Process().Closing()
DisconnectedClosing(t) ==
    /\ t.kind = "Disconnected" /\ t.pc = "closing"
    /\ tasks' = IF IsClosing THEN Retire(tasks, t)
                ELSE Move(tasks, t, [t EXCEPT !.pc = "lock"])
    /\ last' = IF IsClosing THEN Step("DisconnectedClosing", t.p, <<>>, "closing") ELSE NoStep
    /\ UNCHANGED <<closing, connected, peerstore, routingTable, protected, strmap,
                   triggerRtRefresh, plk, smlk, build, departed>>

\* lines 112-117: dht.plk.Lock() and the connectedness check; a peer that
\* is still connected makes the handler return, which runs the deferred
\* dht.plk.Unlock()
DisconnectedLock(t) ==
    /\ t.kind = "Disconnected" /\ t.pc = "lock"
    /\ ~plk
    /\ plk' = ~StaleCheck(t.p)
    /\ tasks' = IF StaleCheck(t.p) THEN Retire(tasks, t)
                ELSE Move(tasks, t, [t EXCEPT !.pc = "remove"])
    /\ last' = IF StaleCheck(t.p) THEN Step("DisconnectedLock", t.p, <<>>, "stale")
                ELSE NoStep
    /\ UNCHANGED <<closing, connected, peerstore, routingTable, protected, strmap,
                   triggerRtRefresh, smlk, build, departed>>

\* a Remove that leaves the peer in the table
RemovePeerNoop(rt, p) == rt

\* dht.routingTable.Remove(p)
RemovePeer(rt, p) == rt \ {p}

\* dht.host.Network().Peers()
NetworkPeers == {q \in Peers : connected[q]}

\* a Disconnected that removes the peer and leaves its protection in place
DisconnectedRemoveProtected(t) ==
    /\ t.kind = "Disconnected" /\ t.pc = "remove"
    /\ routingTable' = RemovePeer(routingTable, t.p)
    /\ protected' = protected
    /\ departed' = [departed EXCEPT ![t.p] = ~connected[t.p]]
    /\ LET visit == IF IsSparse(routingTable') THEN NetworkPeers ELSE {}
       IN tasks' = Move(tasks, t, [t EXCEPT !.todo = visit,
                                            !.pc = IF visit # {} THEN "recover"
                                                   ELSE "smlk"])
    /\ last' = Step("DisconnectedRemove", t.p, <<>>,
                    IF IsSparse(routingTable') THEN "sparse" ELSE "none")
    /\ UNCHANGED <<closing, connected, peerstore, strmap, triggerRtRefresh, plk,
                   smlk, build>>

\* lines 119-123: Remove, Unprotect, the size check and, when the table is
\* sparse, the read of Network().Peers()
DisconnectedRemove(t) ==
    /\ t.kind = "Disconnected" /\ t.pc = "remove"
    /\ routingTable' = RemovePeer(routingTable, t.p)
    /\ protected' = protected \ {t.p}
    /\ departed' = [departed EXCEPT ![t.p] = ~connected[t.p]]
    /\ LET visit == IF IsSparse(routingTable') THEN NetworkPeers ELSE {}
       IN tasks' = Move(tasks, t, [t EXCEPT !.todo = visit,
                                            !.pc = IF visit # {} THEN "recover"
                                                   ELSE "smlk"])
    /\ last' = Step("DisconnectedRemove", t.p, <<>>,
                    IF IsSparse(routingTable') THEN "sparse" ELSE "none")
    /\ UNCHANGED <<closing, connected, peerstore, strmap, triggerRtRefresh, plk,
                   smlk, build>>

\* lines 123-129: one iteration of the loop over the connected peers
DisconnectedRecover(t, q) ==
    /\ t.kind = "Disconnected" /\ t.pc = "recover"
    /\ q \in t.todo
    /\ routingTable' = IF SupportsDHT(q) THEN UpdateTable(routingTable, q)
                       ELSE routingTable
    /\ protected' = IF SupportsDHT(q) THEN UpdateProtected(protected, q)
                    ELSE protected
    /\ tasks' = Move(tasks, t, [t EXCEPT !.todo = t.todo \ {q},
                                         !.pc = IF t.todo = {q} THEN "smlk"
                                                ELSE "recover"])
    /\ last' = Step("DisconnectedRecover", q,
                    IF SupportsDHT(q) THEN <<q>> ELSE <<>>, "none")
    /\ UNCHANGED <<closing, connected, peerstore, strmap, triggerRtRefresh, plk,
                   smlk, build, departed>>

\* lines 132-145: dht.smlk.Lock(), taken with plk still held (its Unlock is
\* deferred), the lookup, the delete and the start of the goroutine that
\* invalidates the removed stream; ms.lk of that stream may be held by a
\* sender in the middle of a send
DisconnectedStrmap(t, held) ==
    /\ t.kind = "Disconnected" /\ t.pc = "smlk"
    /\ smlk = FALSE
    /\ smlk' = TRUE
    /\ strmap' = [strmap EXCEPT ![t.p] = FALSE]
    /\ held => strmap[t.p]
    /\ LET ret == Move(tasks, t, [t EXCEPT !.pc = "return"])
       IN tasks' = IF ~strmap[t.p] THEN ret
                   ELSE Spawn(ret, [Task("invalidate", t.p, "lock")
                                      EXCEPT !.held = held])
    /\ last' = IF strmap[t.p] THEN Step("DisconnectedStrmap", t.p, <<>>, "deleted")
                ELSE NoStep
    /\ UNCHANGED <<closing, connected, peerstore, routingTable, protected,
                   triggerRtRefresh, plk, build, departed>>

\* a Disconnected that waits for the invalidation it started before it returns
DisconnectedReturnJoined(t) ==
    /\ t.kind = "Disconnected" /\ t.pc = "return"
    /\ \A u \in Running : ~(u.kind = "invalidate" /\ u.p = t.p)
    /\ smlk' = FALSE
    /\ plk' = FALSE
    /\ tasks' = Retire(tasks, t)
    /\ last' = NoStep
    /\ UNCHANGED <<closing, connected, peerstore, routingTable, protected, strmap,
                   triggerRtRefresh, build, departed>>

\* lines 133 and 113 at return: the deferred dht.smlk.Unlock(), then the
\* deferred dht.plk.Unlock()
DisconnectedReturn(t) ==
    /\ t.kind = "Disconnected" /\ t.pc = "return"
    /\ smlk' = FALSE
    /\ plk' = FALSE
    /\ tasks' = Retire(tasks, t)
    /\ last' = NoStep
    /\ UNCHANGED <<closing, connected, peerstore, routingTable, protected, strmap,
                   triggerRtRefresh, build, departed>>

\* line 142: ms.lk.Lock(context.Background())
invalidateLock(t) ==
    /\ t.kind = "invalidate" /\ t.pc = "lock"
    /\ ~t.held
    /\ tasks' = Move(tasks, t, [t EXCEPT !.pc = "invalidate"])
    /\ last' = NoStep
    /\ UNCHANGED <<closing, connected, peerstore, routingTable, protected, strmap,
                   triggerRtRefresh, plk, smlk, build, departed>>

\* lines 143-144: ms.invalidate() and the deferred ms.lk.Unlock()
invalidateStream(t) ==
    /\ t.kind = "invalidate" /\ t.pc = "invalidate"
    /\ tasks' = Retire(tasks, t)
    /\ last' = Step("invalidateStream", t.p, <<>>, "invalidated")
    /\ UNCHANGED <<closing, connected, peerstore, routingTable, protected, strmap,
                   triggerRtRefresh, plk, smlk, build, departed>>

\* ------------------------------------------------------- specification
\* the error of a construction step that is not an option's
StepError(msg) == [msg |-> msg, index |-> -1, cause |-> "nil"]

\* New(ctx, h, options...) runs apply with defaults prepended, then
\* applyFallbacks, then validate, and stops at the first error.
\* The config of a node constructed with the options opts:
Constructed(opts) ==
    LET a == apply(ZeroConfig, <<Opt0("defaults")>> \o opts)
        f == applyFallbacks(a.c)
    IN [pc |-> "done", c |-> f.c, opts |-> <<Opt0("defaults")>> \o opts,
        applied |-> a.applied, err |-> NoError]

\* the state after construction of a node built with the default options,
\* or with automatic refresh disabled
Init ==
    /\ closing = FALSE
    /\ connected = [p \in Peers |-> FALSE]
    /\ peerstore = {}
    /\ routingTable = {}
    /\ protected = {}
    /\ strmap = [p \in Peers |-> FALSE]
    /\ triggerRtRefresh = 0
    /\ plk = FALSE
    /\ smlk = FALSE
    /\ build \in {Constructed(<<>>), Constructed(<<Opt0("DisableAutoRefresh")>>)}
    /\ tasks = EmptyBag
    /\ departed = [p \in Peers |-> FALSE]
    /\ last = NoStep

\* the membership controller: the connection events and the three handlers
Next ==
    \/ \E p \in Peers : NetConnect(p)
    \/ \E p \in Peers : NetDisconnect(p)
    \/ RefreshReceive
    \/ \E t \in Running : ConnectedClosing(t)
    \/ \E t \in Running : ConnectedPeerstore(t)
    \/ \E t \in Running : ConnectedLock(t)
    \/ \E t \in Running : ConnectedUpdate(t)
    \/ \E t \in Running : \E outcome \in ProbeOutcomes : testConnectionProbe(t, outcome)
    \/ \E t \in Running : testConnectionLock(t)
    \/ \E t \in Running : testConnectionUpdate(t)
    \/ \E t \in Running : DisconnectedClosing(t)
    \/ \E t \in Running : DisconnectedLock(t)
    \/ \E t \in Running : DisconnectedRemove(t)
    \/ \E t \in Running : \E q \in Peers : DisconnectedRecover(t, q)
    \/ \E t \in Running : \E held \in BOOLEAN : DisconnectedStrmap(t, held)
    \/ \E t \in Running : DisconnectedReturn(t)

Spec == Init /\ [][Next]_vars

\* ... with the shutdown of the process
NextClosing ==
    \/ Next
    \/ BeginClosing

SpecClosing == Init /\ [][NextClosing]_vars

\* ... with the message senders and the invalidation of removed streams
NextStreams ==
    \/ Next
    \/ \E p \in Peers : SenderInsert(p)
    \/ \E t \in Running : SenderUnlock(t)
    \/ \E t \in Running : invalidateLock(t)
    \/ \E t \in Running : invalidateStream(t)

SpecStreams == Init /\ [][NextStreams]_vars

\* ... where a Disconnected handler that holds plk and the goroutines that
\* invalidate a removed stream keep being scheduled; nothing is assumed of
\* the senders that hold ms.lk
SpecStreamsFair ==
    /\ SpecStreams
    /\ WF_vars(\E t \in Running : DisconnectedRemove(t))
    /\ WF_vars(\E t \in Running : \E q \in Peers : DisconnectedRecover(t, q))
    /\ WF_vars(\E t \in Running : \E held \in BOOLEAN : DisconnectedStrmap(t, held))
    /\ WF_vars(\E t \in Running : DisconnectedReturn(t))
    /\ \A p \in Peers : WF_vars(\E t \in Running : t.p = p /\ invalidateLock(t))
    /\ \A p \in Peers : WF_vars(\E t \in Running : t.p = p /\ invalidateStream(t))

\* a message sender locks smlk to look up the stream of p
SenderLookupLock(p) ==
    /\ smlk = FALSE
    /\ BagCardinality(tasks) < MaxTasks
    /\ smlk' = TRUE
    /\ tasks' = Spawn(tasks, Task("sender", p, "strmap"))
    /\ last' = NoStep
    /\ UNCHANGED <<closing, connected, peerstore, routingTable, protected, strmap,
                   triggerRtRefresh, plk, build, departed>>

\* the sender has read dht.strmap[p] and unlocks smlk
SenderLookupUnlock(t) ==
    /\ t.kind = "sender" /\ t.pc = "strmap"
    /\ smlk' = FALSE
    /\ tasks' = Retire(tasks, t)
    /\ last' = NoStep
    /\ UNCHANGED <<closing, connected, peerstore, routingTable, protected, strmap,
                   triggerRtRefresh, plk, build, departed>>

\* a step of a handler, of a probe, of an invalidation goroutine, or the
\* release of smlk or of ms.lk by the sender that holds it
TaskStep ==
    \/ \E t \in Running : ConnectedClosing(t)
    \/ \E t \in Running : ConnectedPeerstore(t)
    \/ \E t \in Running : ConnectedLock(t)
    \/ \E t \in Running : ConnectedUpdate(t)
    \/ \E t \in Running : \E outcome \in ProbeOutcomes : testConnectionProbe(t, outcome)
    \/ \E t \in Running : testConnectionLock(t)
    \/ \E t \in Running : testConnectionUpdate(t)
    \/ \E t \in Running : DisconnectedClosing(t)
    \/ \E t \in Running : DisconnectedLock(t)
    \/ \E t \in Running : DisconnectedRemove(t)
    \/ \E t \in Running : \E q \in Peers : DisconnectedRecover(t, q)
    \/ \E t \in Running : \E held \in BOOLEAN : DisconnectedStrmap(t, held)
    \/ \E t \in Running : DisconnectedReturn(t)
    \/ \E t \in Running : invalidateLock(t)
    \/ \E t \in Running : invalidateStream(t)
    \/ \E t \in Running : SenderUnlock(t)
    \/ \E t \in Running : SenderLookupUnlock(t)

\* ... with senders that hold smlk across a lookup
NextLocks ==
    \/ NextStreams
    \/ \E p \in Peers : SenderLookupLock(p)
    \/ \E t \in Running : SenderLookupUnlock(t)

\* ... where the goroutines keep being scheduled, the probes' network I/O
\* completes and the senders release smlk and ms.lk
SpecLocksFair == Init /\ [][NextLocks]_vars /\ WF_vars(TaskStep)

\* ... with both
NextAll ==
    \/ NextStreams
    \/ BeginClosing

SpecAll == Init /\ [][NextAll]_vars

\* ------------------------------------------- the construction of a config
\* the record.Validator values passed to the Validator option
Validators ==
    { NilValidator, OtherValidator,
      NSValidator({<<"pk", PublicKeyValidator>>, <<"ipns", IpnsValidator>>,
                   <<"x", CustomValidator>>}),
      NSValidator({<<"pk", PublicKeyValidator>>, <<"x", CustomValidator>>}),
      NSValidator({<<"ipns", IpnsValidator>>, <<"x", CustomValidator>>}) }

\* the options passed to the constructor
Options ==
    {Opt("Validator", "", "", 0, v) : v \in Validators}
    \cup {Opt("NamespacedValidator", "pk", CustomValidator, 0, NilValidator),
          Opt("NamespacedValidator", "ipns", CustomValidator, 0, NilValidator),
          Opt("NamespacedValidator", "x", CustomValidator, 0, NilValidator)}
    \cup {OptS("ProtocolPrefix", x) : x \in {"/myapp", "/ip"}}
    \cup {OptS("ProtocolExtension", x) : x \in {"/lan", "fs", ""}}
    \cup {OptN("BucketSize", 5)}
    \cup {Opt0("DisableProviders"), Opt0("DisableValues")}

OptionLists == UNION {[1..n -> Options] : n \in 0..MaxOpts}

InitCfg ==
    /\ closing = FALSE
    /\ connected = [p \in Peers |-> FALSE]
    /\ peerstore = {}
    /\ routingTable = {}
    /\ protected = {}
    /\ strmap = [p \in Peers |-> FALSE]
    /\ triggerRtRefresh = 0
    /\ plk = FALSE
    /\ smlk = FALSE
    /\ build = [pc |-> "new", c |-> ZeroConfig, opts |-> <<>>, applied |-> <<>>,
                err |-> NoError]
    /\ tasks = EmptyBag
    /\ departed = [p \in Peers |-> FALSE]
    /\ last = NoStep

controller == <<closing, connected, peerstore, routingTable, protected, strmap,
                triggerRtRefresh, plk, smlk, tasks, departed, last>>

\* cfg.apply(append([]Option{defaults}, options...)...)
NewApply ==
    /\ build.pc = "new"
    /\ \E options \in OptionLists :
          LET opts == <<Opt0("defaults")>> \o options
              r == apply(build.c, opts)
          IN build' = [pc |-> IF r.err = NoError THEN "applied"
                              ELSE IF r.err = Panicked THEN "panicked"
                              ELSE "failed apply",
                       c |-> r.c, opts |-> opts, applied |-> r.applied, err |-> r.err]
    /\ UNCHANGED controller

\* cfg.applyFallbacks(h)
NewApplyFallbacks ==
    /\ build.pc = "applied"
    /\ LET r == applyFallbacks(build.c)
       IN build' = [build EXCEPT !.pc = IF r.err = "nil" THEN "fallbacks"
                                         ELSE "failed applyFallbacks",
                                 !.c = r.c,
                                 !.err = IF r.err = "nil" THEN NoError
                                         ELSE StepError(r.err)]
    /\ UNCHANGED controller

\* cfg.validate()
NewValidate ==
    /\ build.pc = "fallbacks"
    /\ LET e == validate(build.c)
       IN build' = [build EXCEPT !.pc = IF e = "nil" THEN "done" ELSE "failed validate",
                                 !.err = IF e = "nil" THEN NoError ELSE StepError(e)]
    /\ UNCHANGED controller

NextCfg ==
    \/ NewApply
    \/ NewApplyFallbacks
    \/ NewValidate

SpecCfg == InitCfg /\ [][NextCfg]_vars

\* ------------------------------------- one call of an option or a fallback
\* the options applied before the call under study
MaxPrior == 1

\* a call of every option constructor of dht_options.go
AllOptions ==
    {Opt("Validator", "", "", 0, v) :
        v \in {NilValidator, OtherValidator, NilNSValidator, NSValidator({}),
               NSValidator({<<"pk", PublicKeyValidator>>, <<"x", CustomValidator>>})}}
    \cup {Opt("NamespacedValidator", ns, CustomValidator, 0, NilValidator) :
             ns \in {"pk", "ipns", "x"}}
    \cup {OptS("ProtocolPrefix", "/myapp"), OptS("ProtocolExtension", "/lan"),
          OptS("ProtocolExtension", "")}
    \cup {OptN("BucketSize", 5), OptN("Concurrency", 3), OptN("Resiliency", 2),
          OptN("Mode", ModeServer), OptN("ProtectedBuckets", -1),
          OptN("ProtectedBuckets", 2), OptN("RoutingTableLatencyTolerance", 5),
          OptN("RoutingTableRefreshQueryTimeout", 5),
          OptN("RoutingTableRefreshPeriod", 5), OptN("MaxRecordAge", 60)}
    \cup {Opt0("DisableAutoRefresh"), Opt0("DisableProviders"), Opt0("DisableValues"),
          Opt0("EnableProtectAllBuckets"), Opt0("EnableConsiderLatency")}
    \cup {OptS("Datastore", "LevelDB"), OptS("ProvidersOptions", "opts"),
          OptS("QueryFilter", "myQueryFilter"), OptS("RoutingTableFilter", "myRTFilter"),
          OptS("AvgBitsImprovedPerStep", "2.5"), OptS("AvgRoundTripPerStep", "2"),
          OptS("V1CompatibleMode", "false"), OptS("V1CompatibleMode", "true"),
          OptS("BootstrapPeers", "peers")}

\* the configs a call can find: the zero value New starts from, and the
\* config after defaults and up to MaxPrior options that all returned nil
PriorLists == UNION {[1..n -> AllOptions] : n \in 0..MaxPrior}
Configs ==
    {ZeroConfig} \cup
    {apply(ZeroConfig, <<Opt0("defaults")>> \o l).c :
        l \in {x \in PriorLists :
                  apply(ZeroConfig, <<Opt0("defaults")>> \o x).err = NoError}}

InitOpt ==
    /\ closing = FALSE
    /\ connected = [p \in Peers |-> FALSE]
    /\ peerstore = {}
    /\ routingTable = {}
    /\ protected = {}
    /\ strmap = [p \in Peers |-> FALSE]
    /\ triggerRtRefresh = 0
    /\ plk = FALSE
    /\ smlk = FALSE
    /\ build \in {[pc |-> "input", c |-> c, opt |-> opt, r |-> Ok(c)] :
                     c \in Configs, opt \in AllOptions \cup {Opt0("defaults")}}
    /\ tasks = EmptyBag
    /\ departed = [p \in Peers |-> FALSE]
    /\ last = NoStep

\* opt(c), line 86
OptionCall ==
    /\ build.pc = "input"
    /\ build' = [build EXCEPT !.pc = "called option", !.r = Call(build.opt, build.c)]
    /\ UNCHANGED controller

\* c.applyFallbacks(h)
FallbacksCall ==
    /\ build.pc = "input"
    /\ build' = [build EXCEPT !.pc = "called applyFallbacks",
                              !.r = applyFallbacks(build.c)]
    /\ UNCHANGED controller

NextOpt ==
    \/ OptionCall
    \/ FallbacksCall

SpecOpt == InitOpt /\ [][NextOpt]_vars

\* the common prefix lengths the protection policy is asked about
MaxCpl == 3

\* shouldProtect(cpl, cfg) on the config an option returned
shouldProtectCall ==
    /\ build.pc = "called option"
    /\ build.r.err = "nil"
    /\ \E cpl \in 0..MaxCpl :
          build' = [pc |-> "called shouldProtect", c |-> build.r.c, opt |-> build.opt,
                    r |-> build.r, cpl |-> cpl,
                    protect |-> shouldProtect(cpl, build.r.c)]
    /\ UNCHANGED controller

\* ... with the protection policy read from the config an option returned
NextProtect ==
    \/ OptionCall
    \/ shouldProtectCall

SpecProtect == InitOpt /\ [][NextProtect]_vars

\* ================================================================ properties
\* the task t takes a step: one of its copies leaves the bag
StepOf(t) == CopiesIn(t, tasks') = CopiesIn(t, tasks) - 1

\* the kinds of task that run a connect handler or its probe
Admitters == {"Connected", "testConnection"}

\* no Connected handler, probe or Disconnected handler is in flight
Quiescent ==
    \A t \in Running : t.kind \notin {"Connected", "testConnection", "Disconnected"}

\* C1: before shutdown, whenever no Connected handler, probe or Disconnected
\* handler is in flight, every peer of the routing table is connected and
\* has a DHT protocol recorded in the peerstore.
C1_QuiescentMembers ==
    (~closing /\ Quiescent) =>
        \A p \in routingTable : connected[p] /\ p \in peerstore

\* a quiescent state before shutdown with a peer in the table, reached after
\* a Disconnected handler removed another peer that stayed away
C1_Witness ==
    /\ ~closing /\ Quiescent
    /\ routingTable # {}
    /\ \E p \in Peers : departed[p] /\ p \in peerstore

\* C2: after Disconnected removed p, and while p has not connected again, a
\* Connected handler or probe for p that takes the lifecycle lock returns
\* without Update(p) and without a refresh request.
C2_StaleConnect ==
    [][\A t \in Running :
          (t.kind \in Admitters /\ t.pc = "lock" /\ departed[t.p] /\ StepOf(t)) =>
              /\ tasks' = Retire(tasks, t)
              /\ routingTable' = routingTable
              /\ t.p \notin routingTable'
              /\ protected' = protected
              /\ triggerRtRefresh' = triggerRtRefresh
              /\ plk' = FALSE]_vars

\* a stale connect handler or probe has just returned under the lock for a
\* peer that Disconnected removed
C2_Witness ==
    /\ last.act \in {"ConnectedLock", "testConnectionLock"}
    /\ last.sig = "gone"
    /\ departed[last.p]
    /\ last.p \notin routingTable

\* C3: a Disconnected handler that finds, under the lifecycle lock, the peer
\* connected again returns at once: no Remove, no Unprotect, no recovery, no
\* change of the stream map and no invalidation.
C3_StaleDisconnect ==
    [][\A t \in At("Disconnected", "lock") :
          (StepOf(t) /\ connected[t.p]) =>
              /\ tasks' = Retire(tasks, t)
              /\ routingTable' = routingTable
              /\ protected' = protected
              /\ strmap' = strmap
              /\ peerstore' = peerstore
              /\ triggerRtRefresh' = triggerRtRefresh
              /\ plk' = FALSE /\ smlk' = smlk]_vars

\* a stale disconnect has just returned for a peer that is in the table,
\* protected, and has a stream in the map
C3_Witness ==
    /\ last.act = "DisconnectedLock" /\ last.sig = "stale"
    /\ last.p \in routingTable
    /\ last.p \in protected
    /\ strmap[last.p]

\* C4: the refresh channel never holds more than one request; a request made
\* while one is pending is dropped, leaves the channel as it is, and the
\* handler that made it completes without waiting.
C4_RefreshChannel ==
    /\ [](triggerRtRefresh \in 0..1)
    /\ [](\A t \in Running :
            (t.kind \in Admitters /\ t.pc = "update") =>
                ENABLED (ConnectedUpdate(t) \/ testConnectionUpdate(t)))
    /\ [][\A t \in Running :
            (t.kind \in Admitters /\ t.pc = "update" /\ StepOf(t)
                /\ triggerRtRefresh = 1) =>
                /\ triggerRtRefresh' = 1
                /\ last'.sig \in {"dropped", "none"}
                /\ tasks' = Retire(tasks, t)]_vars

\* a request was dropped because one was pending
C4_Witness ==
    /\ last.sig = "dropped"
    /\ triggerRtRefresh = 1

\* C5: a handler or probe that found the peer connected under the lock calls
\* Update(peer) once, and requests a refresh exactly when automatic refresh
\* is enabled and the size read before the Update is at most the threshold.
C5_RefreshRule ==
    /\ [](~dhtAutoRefresh => triggerRtRefresh = 0 /\ last.sig \notin {"sent", "dropped"})
    /\ [][\A t \in Running :
            (t.kind \in Admitters /\ t.pc = "update" /\ StepOf(t)) =>
                LET request == dhtAutoRefresh
                               /\ Cardinality(routingTable) <= minRTRefreshThreshold
                IN /\ last'.upd = <<t.p>>
                   /\ routingTable' = routingTable \cup {t.p}
                   /\ tasks' = Retire(tasks, t)
                   /\ (last'.sig \in {"sent", "dropped"}) <=> request
                   /\ triggerRtRefresh' = IF request /\ triggerRtRefresh = 0
                                          THEN 1 ELSE triggerRtRefresh]_vars

\* a request was sent by an Update made when the size of the table was
\* equal to the threshold: the peer is new, the table is full afterwards
C5_Witness ==
    /\ last.act \in {"ConnectedUpdate", "testConnectionUpdate"}
    /\ last.sig = "sent"
    /\ Cardinality(routingTable) = minRTRefreshThreshold + 1
    /\ dhtAutoRefresh

\* C6: once shutdown has begun, a Connected or Disconnected event that
\* reaches its shutdown check returns there and changes nothing; the table
\* is then changed only by tasks that are past that check.
C6_ClosingNoOp ==
    [][closing =>
          /\ \A t \in At("Connected", "closing") \cup At("Disconnected", "closing") :
                StepOf(t) =>
                    /\ tasks' = Retire(tasks, t)
                    /\ UNCHANGED <<routingTable, peerstore, protected, strmap,
                                   triggerRtRefresh, plk, smlk>>
          /\ routingTable' # routingTable =>
                \E t \in Running : StepOf(t) /\ t.pc \in {"update", "remove", "recover"}
      ]_vars

\* after shutdown began, the Disconnected event of a peer of the table
\* returned at its check: the peer has left and is still in the table
C6_Witness ==
    /\ closing
    /\ last.act = "DisconnectedClosing"
    /\ last.p \in routingTable
    /\ ~connected[last.p]

\* C7: a probe whose NewStream or SelectOneOf fails returns without Update,
\* without a record in the peerstore, without a refresh request and without
\* the lifecycle lock.
C7_FailedProbe ==
    [][\A t \in At("testConnection", "NewStream") :
          (StepOf(t)
              /\ CopiesIn([t EXCEPT !.pc = "lock"], tasks')
                    = CopiesIn([t EXCEPT !.pc = "lock"], tasks)) =>
              /\ tasks' = Retire(tasks, t)
              /\ UNCHANGED <<routingTable, peerstore, protected,
                             triggerRtRefresh, plk>>]_vars

\* a probe has just failed in the negotiation for a connected peer that is
\* neither in the peerstore nor in the table
C7_Witness ==
    /\ last.act = "testConnectionProbe"
    /\ last.sig = "SelectOneOf err"
    /\ connected[last.p]
    /\ last.p \notin peerstore
    /\ last.p \notin routingTable

\* the successors of the Disconnected task t in tasks'
Successors(t) ==
    {u \in BagToSet(tasks') :
        u.kind = "Disconnected" /\ u.p = t.p /\ tasks' = Move(tasks, t, u)}

\* C8: when the size after Remove is below the threshold, Disconnected
\* visits the peers Network().Peers() returns and calls Update for each one
\* with cached support, for none without, and starts no probe; when the
\* size is at or above the threshold it updates no other peer.
C8_Recovery ==
    [][/\ \A t \in At("Disconnected", "remove") :
            StepOf(t) =>
                /\ routingTable' = routingTable \ {t.p}
                /\ \E u \in Successors(t) :
                      /\ u.todo = IF Cardinality(routingTable') < minRTRefreshThreshold
                                  THEN {q \in Peers : connected[q]} ELSE {}
                      /\ u.pc = IF u.todo # {} THEN "recover" ELSE "smlk"
       /\ \A t \in At("Disconnected", "recover") :
            StepOf(t) =>
                \E u \in Successors(t) : \E q \in t.todo :
                    /\ u.todo = t.todo \ {q}
                    /\ u.pc = IF u.todo # {} THEN "recover" ELSE "smlk"
                    /\ routingTable' = IF q \in peerstore
                                       THEN routingTable \cup {q} ELSE routingTable
                    /\ last'.upd = IF q \in peerstore THEN <<q>> ELSE <<>>
                    /\ peerstore' = peerstore
       /\ \A t \in At("Disconnected", "smlk") \cup At("Disconnected", "return") :
            StepOf(t) => routingTable' = routingTable
      ]_vars

\* the recovery has just called Update for a peer other than the removed
\* one, which is in the table again
C8_Witness ==
    /\ last.act = "DisconnectedRecover"
    /\ last.upd = <<last.p>>
    /\ last.p \in routingTable
    /\ \E t \in Running : t.kind = "Disconnected" /\ t.p # last.p
                          /\ t.pc \in {"recover", "smlk"}

\* the reserved-prefix invariants do not hold of the config c
ReservedViolated(c) ==
    \/ c.bucketSize # 20
    \/ ~c.enableProviders
    \/ ~c.enableValues
    \/ c.validator.kind # "NamespacedValidator"
    \/ Cardinality(c.validator.m) # 2
    \/ ~\E e \in c.validator.m : e = <<"pk", PublicKeyValidator>>
    \/ ~\E e \in c.validator.m : e = <<"ipns", IpnsValidator>>

\* C9: validate() fails exactly when the prefix is the reserved default and
\* one of the reserved-prefix invariants is violated; with any other prefix
\* it succeeds whatever the other fields are.
C9_Validate ==
    /\ (validate(build.c) # "nil") <=>
          (build.c.protocolPrefix = "/ipfs" /\ ReservedViolated(build.c))
    /\ build.pc = "failed validate" =>
          (build.c.protocolPrefix = "/ipfs" /\ ReservedViolated(build.c))
    /\ build.pc = "done" =>
          ~(build.c.protocolPrefix = "/ipfs" /\ ReservedViolated(build.c))

\* validate has just failed for a config with the reserved prefix that
\* breaks only the rule of exactly two namespaces
C9_Witness ==
    /\ build.pc = "failed validate"
    /\ build.c.protocolPrefix = "/ipfs"
    /\ build.c.bucketSize = 20 /\ build.c.enableProviders /\ build.c.enableValues
    /\ build.c.validator.kind = "NamespacedValidator"
    /\ Cardinality(build.c.validator.m) = 3

\* the config after the first j options of opts, each called on the result
\* of the one before
RECURSIVE After(_, _)
After(opts, j) == IF j = 0 THEN ZeroConfig ELSE Call(opts[j], After(opts, j - 1)).c

\* the positions of the options of opts that fail when called in order
Failing(opts) ==
    {j \in 1..Len(opts) : Call(opts[j], After(opts, j - 1)).err # "nil"}

\* C10: apply calls the options in order against the same config and stops
\* at the first that fails: the error names its index and its cause, the
\* options before it have been applied and none after it is called; without
\* a failure every option is applied and the error is nil.
C10_Apply ==
    build.pc \in {"applied", "failed apply"} =>
        LET opts == build.opts
            F == Failing(opts)
        IN IF F = {}
           THEN /\ build.pc = "applied"
                /\ build.err = NoError
                /\ build.applied = opts
                /\ build.c = After(opts, Len(opts))
           ELSE LET i == CHOOSE j \in F : \A k \in F : j <= k
                IN /\ build.pc = "failed apply"
                   /\ build.err.index = i - 1
                   /\ build.err.cause = Call(opts[i], After(opts, i - 1)).err
                   /\ build.err.msg = "dht option failed"
                   /\ build.applied = SubSeq(opts, 1, i)
                   /\ build.c = After(opts, i)

\* apply has just failed at the option of index 2, with one option after it
\* that was not called
C10_Witness ==
    /\ build.pc = "failed apply"
    /\ build.err.index = 2
    /\ Len(build.opts) = 4
    /\ Len(build.applied) = 3

\* the namespaces of m with the default "pk" and "ipns" added where absent
WithDefaults(m) ==
    m \cup (IF \E e \in m : e[1] = "pk" THEN {} ELSE {<<"pk", PublicKeyValidator>>})
      \cup (IF \E e \in m : e[1] = "ipns" THEN {} ELSE {<<"ipns", IpnsValidator>>})

\* C11 (as amended): applyFallbacks adds the default "pk" and "ipns" entries,
\* each only if absent, exactly when the validator is not marked as replaced
\* and is a namespaced validator (with a map that is not nil); when the
\* Validator option replaced the validator it changes nothing and returns
\* nil, whether or not the replacement is namespaced; it returns an error
\* only for a validator that is not namespaced and not marked as replaced.
C11_Fallbacks ==
    build.pc = "called applyFallbacks" =>
        LET c == build.c
            r == build.r
        IN IF c.validatorChanged
           THEN r.err = "nil" /\ r.c = c
           ELSE IF c.validator.kind = "NamespacedValidator"
           THEN /\ r.err = "nil"
                /\ r.c = [c EXCEPT !.validator =
                             [kind |-> "NamespacedValidator",
                              m |-> WithDefaults(c.validator.m)]]
           ELSE IF c.validator.kind = "NamespacedValidator(nil)"
           THEN r.err = PanicNilMap /\ r.c = c
           ELSE r.err \notin {"nil", PanicNilMap} /\ r.c = c

\* applyFallbacks has returned nil, without a change, for a validator that
\* the Validator option replaced by one that is not namespaced
C11_Witness ==
    /\ build.pc = "called applyFallbacks"
    /\ build.c.validatorChanged
    /\ build.c.validator.kind = "other"
    /\ build.r.err = "nil"
    /\ build.r.c = build.c

\* C11 (as stated): the defaults are added only when the validator was never
\* replaced, and a replaced validator that is not namespaced makes
\* applyFallbacks return an error.
C11_Original ==
    build.pc = "called applyFallbacks" =>
        /\ build.r.c # build.c => ~build.c.validatorChanged
        /\ (build.c.validatorChanged
              /\ build.c.validator.kind \notin {"NamespacedValidator",
                                                "NamespacedValidator(nil)"})
             => build.r.err # "nil"

\* the field of the config each option constructor is for
OwnField(name) ==
    CASE name = "Validator" -> "validator"
      [] name = "NamespacedValidator" -> "validator"
      [] name = "ProtocolPrefix" -> "protocolPrefix"
      [] name = "ProtocolExtension" -> "protocolPrefix"
      [] name = "BucketSize" -> "bucketSize"
      [] name = "Concurrency" -> "concurrency"
      [] name = "Resiliency" -> "resiliency"
      [] name = "Mode" -> "mode"
      [] name = "DisableAutoRefresh" -> "autoRefresh"
      [] name = "DisableProviders" -> "enableProviders"
      [] name = "DisableValues" -> "enableValues"
      [] name = "EnableProtectAllBuckets" -> "protectAllBuckets"
      [] name = "ProtectedBuckets" -> "protectedBuckets"
      [] name = "RoutingTableLatencyTolerance" -> "latencyTolerance"
      [] name = "RoutingTableRefreshQueryTimeout" -> "refreshQueryTimeout"
      [] name = "RoutingTableRefreshPeriod" -> "refreshInterval"
      [] name = "Datastore" -> "datastore"
      [] name = "MaxRecordAge" -> "maxRecordAge"
      [] name = "ProvidersOptions" -> "providersOptions"
      [] name = "QueryFilter" -> "queryPeerFilter"
      [] name = "RoutingTableFilter" -> "peerFilter"
      [] name = "EnableConsiderLatency" -> "considerLatency"
      [] name = "AvgBitsImprovedPerStep" -> "avgBitsImprovedPerStep"
      [] name = "AvgRoundTripPerStep" -> "avgRoundTripPerStep"
      [] name = "V1CompatibleMode" -> "v1CompatibleMode"
      [] name = "BootstrapPeers" -> "bootstrapPeers"

\* the fields whose value differs between the configs c and d
Changed(c, d) == {f \in DOMAIN c : c[f] # d[f]}

\* the validator v is a record.NamespacedValidator
Namespaced(v) == v.kind \in {"NamespacedValidator", "NamespacedValidator(nil)"}

\* C12 (as amended): every option writes only its own field and leaves the
\* others unchanged, except that Validator also sets the validatorChanged
\* mark; every option but NamespacedValidator returns nil; NamespacedValidator
\* returns an error exactly when the validator is not namespaced, and then
\* changes nothing; on a nil namespaced map it panics.
C12_OptionFrame ==
    (build.pc = "called option" /\ build.opt.name # "defaults") =>
        LET c == build.c
            r == build.r
            name == build.opt.name
        IN /\ Changed(c, r.c) \subseteq
                ({OwnField(name)} \cup
                    IF name = "Validator" THEN {"validatorChanged"} ELSE {})
           /\ name = "Validator" =>
                r.c.validator = build.opt.v /\ r.c.validatorChanged
           /\ name # "NamespacedValidator" => r.err = "nil"
           /\ name = "NamespacedValidator" =>
                /\ (r.err \notin {"nil", PanicNilMap}) <=> ~Namespaced(c.validator)
                /\ (r.err = PanicNilMap) <=> c.validator.kind = "NamespacedValidator(nil)"
                /\ r.err # "nil" => r.c = c
                /\ r.err = "nil" =>
                      /\ <<build.opt.s, build.opt.k>> \in r.c.validator.m
                      /\ \A e \in c.validator.m :
                            e[1] # build.opt.s => e \in r.c.validator.m
                      /\ \A e \in r.c.validator.m :
                            e \in c.validator.m \/ e = <<build.opt.s, build.opt.k>>

\* NamespacedValidator has returned its error, without a change, on a
\* config whose validator is not namespaced
C12_Witness ==
    /\ build.pc = "called option"
    /\ build.opt.name = "NamespacedValidator"
    /\ build.c.validator.kind = "other"
    /\ build.r.err \notin {"nil", PanicNilMap}
    /\ build.r.c = build.c

\* C12 (as stated): an option changes one field only, every option but
\* NamespacedValidator succeeds, and NamespacedValidator fails exactly when
\* the validator is not namespaced, changing nothing then.
C12_Original ==
    (build.pc = "called option" /\ build.opt.name # "defaults") =>
        /\ Cardinality(Changed(build.c, build.r.c)) <= 1
        /\ build.opt.name # "NamespacedValidator" => build.r.err = "nil"
        /\ build.opt.name = "NamespacedValidator" =>
              /\ (build.r.err # "nil") <=> ~Namespaced(build.c.validator)
              /\ build.r.err # "nil" => build.r.c = build.c

\* the constructor was given NamespacedValidator options only
OnlyNamespaced(opts) ==
    \A i \in 2..Len(opts) : opts[i].name = "NamespacedValidator"

\* C13: on a config built from the defaults with NamespacedValidator options
\* only, after applyFallbacks "pk" is bound to the default public-key
\* validator and "ipns" to the default naming validator, and every other
\* namespace given is present.
C13_NoOverride ==
    (build.pc = "fallbacks" /\ OnlyNamespaced(build.opts)) =>
        /\ build.c.validator.kind = "NamespacedValidator"
        /\ Lookup(build.c.validator.m, "pk") = PublicKeyValidator
        /\ Lookup(build.c.validator.m, "ipns") = IpnsValidator
        /\ \A i \in 2..Len(build.opts) :
              build.opts[i].s \notin {"pk", "ipns"} =>
                  Lookup(build.c.validator.m, build.opts[i].s) = build.opts[i].k

\* C14: the Remove and Unprotect of a Disconnected that is not stale leave
\* the peer out of the table and unprotected, whatever its state before; on a
\* peer that is already out of the table and unprotected (as a first run
\* leaves it) they change neither the table nor the protected set.
C14_Unprotect ==
    [][\A t \in Running :
          (t.kind = "Disconnected" /\ t.pc = "remove" /\ StepOf(t)) =>
              /\ t.p \notin routingTable'
              /\ t.p \notin protected'
              /\ (t.p \notin routingTable /\ t.p \notin protected) =>
                    (routingTable' = routingTable /\ protected' = protected)]_vars

\* a Disconnected has run its Remove and Unprotect on a peer that was never
\* in the table and never protected (it was never known to speak the protocol)
C14_Witness ==
    /\ last.act = "DisconnectedRemove"
    /\ last.p \notin peerstore
    /\ last.p \notin routingTable
    /\ last.p \notin protected
    /\ protected # {}

\* C15: shouldProtect(cpl, cfg) is true for every cpl when protectAllBuckets
\* is set (EnableProtectAllBuckets); otherwise it is true exactly when
\* protectedBuckets >= 0 and cpl <= protectedBuckets, the depth being the one
\* ProtectedBuckets stored: -1 protects no bucket and 1 (the default)
\* protects cpl 0 and 1 but not 2.
C15_ShouldProtect ==
    build.pc = "called shouldProtect" =>
        LET c == build.c
            cpl == build.cpl
            r == build.protect
        IN /\ c.protectAllBuckets => r
           /\ ~c.protectAllBuckets =>
                (r <=> (c.protectedBuckets >= 0 /\ cpl <= c.protectedBuckets))
           /\ build.opt.name = "EnableProtectAllBuckets" => r
           /\ (build.opt.name = "ProtectedBuckets" /\ ~c.protectAllBuckets) =>
                (r <=> (build.opt.n >= 0 /\ cpl <= build.opt.n))
           /\ (~c.protectAllBuckets /\ c.protectedBuckets = -1) => ~r
           /\ (~c.protectAllBuckets /\ c.protectedBuckets = 1) => (r <=> cpl \in {0, 1})

\* the policy has refused cpl 2 under the default depth of 1
C15_Witness ==
    /\ build.pc = "called shouldProtect"
    /\ ~build.c.protectAllBuckets
    /\ build.c.protectedBuckets = 1
    /\ build.cpl = 2
    /\ ~build.protect

HandlerIn(p) ==
    \E t \in Running : t.kind = "Disconnected" /\ t.p = p
                          /\ t.pc \in {"remove", "recover", "smlk", "return"}

\* a stream of p removed from the map is waiting to be invalidated
PendingInvalidate(p) == \E t \in Running : t.kind = "invalidate" /\ t.p = p

\* C17: when a Disconnected handler that was not stale returns, the stream
\* map has no entry for its peer; the handler is never blocked on the way to
\* its return and does return, whoever holds ms.lk and for however long;
\* and if every sender that holds ms.lk of a removed stream releases it, the
\* removed stream is eventually invalidated.
C17_Invalidation ==
    /\ [][\A t \in Running :
            (t.kind = "Disconnected" /\ t.pc = "return" /\ StepOf(t)) =>
                ~strmap'[t.p]]_vars
    /\ [](\A t \in Running :
            /\ (t.kind = "Disconnected" /\ t.pc = "smlk") =>
                  ENABLED (\E held \in BOOLEAN : DisconnectedStrmap(t, held))
            /\ (t.kind = "Disconnected" /\ t.pc = "return") =>
                  ENABLED DisconnectedReturn(t))
    /\ \A p \in Peers : HandlerIn(p) ~> ~HandlerIn(p)
    /\ \A p \in Peers :
          WF_vars(\E t \in Running : t.p = p /\ SenderUnlock(t)) =>
              (PendingInvalidate(p) ~>
                  (last.act = "invalidateStream" /\ last.p = p))

\* a handler has returned and left no entry in the map while a sender still
\* holds ms.lk of the stream it removed
C17_Witness ==
    \E t \in Running :
        /\ t.kind = "invalidate" /\ t.pc = "lock" /\ t.held
        /\ ~strmap[t.p]
        /\ ~HandlerIn(t.p)
        /\ ~smlk /\ ~plk

\* C18: no Disconnected handler holds plk while it holds smlk or is about to
\* lock smlk.
C18_LockOrder ==
    \A t \in Running :
        (t.kind = "Disconnected" /\ t.pc \in {"smlk", "return"}) => ~plk

\* the invalidation tasks of the streams removed for p
Invalidators(p) == {u \in Running : u.kind = "invalidate" /\ u.p = p}

\* C19: while the Disconnected handler that has just removed a stream from
\* the map still holds smlk, the task that invalidates that stream cannot
\* acquire ms.lk.
C19_EntryLockAfter ==
    (last.act = "DisconnectedStrmap" /\ last.sig = "deleted" /\ smlk) =>
        \A u \in Invalidators(last.p) :
            (Invalidators(last.p) = {u} /\ CopiesIn(u, tasks) = 1) =>
                ~ENABLED invalidateLock(u)

\* the handlers between their connectedness check and their return: they
\* are the ones that call Update or Remove
Holders ==
    {t \in Running :
        \/ (t.kind \in Admitters /\ t.pc = "update")
        \/ (t.kind = "Disconnected" /\ t.pc \in {"remove", "recover", "smlk", "return"})}

\* C20: a handler that has made its connectedness check and has an Update or
\* a Remove to do holds plk and is the only such handler, and every change
\* of the routing table is a step of that handler, made with plk held.
C20_MutationsUnderLock ==
    /\ [](\A t \in Holders : plk /\ Holders = {t} /\ CopiesIn(t, tasks) = 1)
    /\ [][routingTable' # routingTable =>
             (plk /\ \E t \in Holders : StepOf(t))]_vars

\* a Disconnected handler is re-admitting peers under plk while another
\* handler waits for plk
C20_Witness ==
    /\ plk
    /\ \E t \in Running : t.kind = "Disconnected" /\ t.pc = "recover"
    /\ \E w \in Running : w.kind \in Admitters /\ w.pc = "lock"
    /\ last.act = "DisconnectedRemove"

\* the probe that Connected starts for the connection to p
ProbeOf(p) == Task("testConnection", p, "NewStream")

\* C21: a Connected handler that is past the shutdown check and finds no
\* cached protocol for its peer is never blocked, whatever probes are in
\* flight; its step starts one probe for its peer, ends the handler, and
\* changes neither plk nor the routing table nor the protected set.
C21_Dispatch ==
    /\ [](\A t \in Running :
            (t.kind = "Connected" /\ t.pc = "peerstore") =>
                ENABLED ConnectedPeerstore(t))
    /\ [][\A t \in Running :
            (t.kind = "Connected" /\ t.pc = "peerstore" /\ StepOf(t)
               /\ t.p \notin peerstore) =>
                /\ CopiesIn(ProbeOf(t.p), tasks') = CopiesIn(ProbeOf(t.p), tasks) + 1
                /\ BagCardinality(tasks') = BagCardinality(tasks)
                /\ \A u \in BagToSet(tasks') :
                      u # ProbeOf(t.p) => CopiesIn(u, tasks') <= CopiesIn(u, tasks)
                /\ plk' = plk
                /\ routingTable' = routingTable
                /\ protected' = protected
                /\ peerstore' = peerstore
         ]_vars

\* two Connected handlers for the same peer have returned while the probe of
\* the first has not finished its stream open: both probes are in flight
C21_Witness ==
    \E p \in Peers :
        /\ CopiesIn(ProbeOf(p), tasks) = 2
        /\ p \notin peerstore
        /\ p \notin routingTable
        /\ ~plk
        /\ ~closing

\* a connection event or a sender's lookup arrives
Arrival ==
    \/ connected' # connected
    \/ \E p \in Peers :
          CopiesIn(Task("sender", p, "strmap"), tasks')
              > CopiesIn(Task("sender", p, "strmap"), tasks)

\* C22: no reachable state has every task in flight blocked; a held plk or
\* smlk has its holder in flight, so that with no task in flight both are
\* free; and once connection events and lookups stop arriving, every
\* handler, probe and invalidation ends and the locks stay free.
C22_DeadlockFree ==
    /\ [](tasks # EmptyBag => ENABLED TaskStep)
    /\ [](plk => Holders # {})
    /\ [](smlk => \E t \in Running :
                      \/ (t.kind = "Disconnected" /\ t.pc = "return")
                      \/ t.kind = "sender")
    /\ <>[][~Arrival]_vars => <>[](tasks = EmptyBag /\ ~plk /\ ~smlk)

\* a Disconnected handler holds plk and waits for smlk, which a sender holds
C22_Witness ==
    /\ plk /\ smlk
    /\ \E t \in Running : t.kind = "Disconnected" /\ t.pc = "smlk"
    /\ \E t \in Running : t.kind = "sender"

====
